---- MODULE Spec2Model ----
(***************************************************************************)
(* Model of package runfx (src/runfx.go): the lifecycle runner Run and the *)
(* exit-on-completion entry point RunAndExit.                              *)
(*                                                                         *)
(* One execution of Run is one sequential flow of control; pc is its       *)
(* position.  The fx application (fx.New / Start / Wait / Stop), the       *)
(* contexts and the process (os.Exit, log) are the environment Run acts on.*)
(***************************************************************************)
EXTENDS Integers, Sequences, FiniteSets, TLC

VARIABLES
    entry,      \* "Run" or "RunAndExit": which entry point the caller used
    hasDef,     \* fxOpts implements SetDefaulter
    hasVal,     \* fxOpts implements Validator
    pc,         \* position of the flow of control ("caller": back in the caller)
    rootCtx,    \* state of the caller's ctx
    handle,     \* fxApp: its StartTimeout/StopTimeout (built = FALSE before fx.New)
    startCtx,   \* state of startCtx ("none" before line 60)
    stopCtx,    \* state of stopCtx ("none" before line 70)
    released,   \* cancel functions that have run: subset of {"start","stop"}
    shutdown,   \* the signal broadcast to fxApp.Wait() channels, NoSig if none yet
    sig,        \* local variable sig of Run (line 68)
    ret,        \* the error returned by Run
    calls,      \* operations of the application invoked so far, in order
    rets,       \* their results, in order of return
    rootAtStart,\* state of ctx when startCtx was derived (history)
    rootAtStop, \* state of ctx when stopCtx was derived (history)
    proc,       \* "alive" or "exited"
    exitArg,    \* exit code RunAndExit has decided on (pc = "os_exit")
    exitStatus, \* status the process exited with (proc = "exited")
    log         \* lines written through package log

vars == <<entry, hasDef, hasVal, pc, rootCtx, handle, startCtx, stopCtx,
          released, shutdown, sig, ret, calls, rets, rootAtStart, rootAtStop,
          proc, exitArg, exitStatus, log>>

----------------------------------------------------------------------------
(* Bounds of the model *)

\* exit codes a termination signal carries: -1 .. MaxLowCode, and the
\* values in HighCodes
MaxLowCode == 3

----------------------------------------------------------------------------
(* Values *)

HighCodes == {7, 255, 256}

ExitCodes == (-1 .. MaxLowCode) \cup HighCodes

\* os.Signal values; "nil" is the nil interface
Signals == {"nil", "SIGTERM"}

\* fx.ShutdownSignal
ShutdownSignals == [ExitCode : ExitCodes, Signal : Signals]

NoSig == [ExitCode |-> 0, Signal |-> "none"]

\* error values: nil, an opaque error, and the two context errors
NilErr == [kind |-> "nil"]

PlainErr(m) == [kind |-> "plain", msg |-> m]

Canceled == PlainErr("context canceled")

DeadlineExceeded == PlainErr("context deadline exceeded")

ExitError(code, s) == [kind |-> "ExitError", ExitCode |-> code, Signal |-> s]

\* fmt.Errorf("<tag>: %w", err)
Wrap(tag, err) == [kind |-> "wrap", tag |-> tag, cause |-> err]

\* errors the application's own operations can return: an opaque error, or
\* an ExitError value (any error type may come out of a hook)
AppErrors == {PlainErr("boom"), ExitError(0, "nil"), ExitError(2, "SIGTERM")}

\* time.Duration values of StartTimeout()/StopTimeout(): 0 is already
\* expired on creation, 1 stands for any positive duration
Timeouts == {0, 1}

NoHandle == [built |-> FALSE, StartTimeout |-> 0, StopTimeout |-> 0]

----------------------------------------------------------------------------
(* context *)

\* ctx.Err() of a context in state st
CtxErr(st) ==
    IF st = "canceled" THEN Canceled
    ELSE IF st = "deadline" THEN DeadlineExceeded
    ELSE NilErr

Done(st) == st \in {"canceled", "deadline"}

\* context.WithTimeout(parent, d): a done parent gives a child done with the
\* parent's error; d <= 0 gives a child whose deadline has passed; otherwise
\* the child is active and holds a live timer
WithTimeout(parent, d) ==
    IF Done(parent) THEN parent
    ELSE IF d <= 0 THEN "deadline"
    ELSE "active"

\* the cancel function returned by WithTimeout: stops the timer; the first
\* error of a context sticks
CancelCtx(st) == IF st = "active" THEN "canceled" ELSE st

\* cancellation of the parent reaches the children that are still active
Propagate(child, parentSt) == IF child = "active" THEN parentSt ELSE child

----------------------------------------------------------------------------
Init ==
    /\ entry \in {"Run", "RunAndExit"}
    /\ hasDef \in BOOLEAN
    /\ hasVal \in BOOLEAN
    /\ pc = "defaults"
    /\ rootCtx = "active"
    /\ handle = NoHandle
    /\ startCtx = "none"
    /\ stopCtx = "none"
    /\ released = {}
    /\ shutdown = NoSig
    /\ sig = NoSig
    /\ ret = NilErr
    /\ calls = <<>>
    /\ rets = <<>>
    /\ rootAtStart = "none"
    /\ rootAtStop = "none"
    /\ proc = "alive"
    /\ exitArg = 0
    /\ exitStatus = 0
    /\ log = <<>>

----------------------------------------------------------------------------
(* The fx application, as Run sees it *)

\* what fxApp.Start(c) / fxApp.Stop(c) can return when they return while c
\* is in state st: fx reports c.Err() once c is done; otherwise nil or an
\* error of one of the application's hooks
FxCallOutcomes(st) ==
    IF Done(st) THEN {CtxErr(st)} ELSE AppErrors \cup {NilErr}

\* errors.As(err, &exitErr): the first ExitError in err's Unwrap chain,
\* NilErr when there is none
RECURSIVE AsExitError(_)
AsExitError(err) ==
    IF err.kind = "ExitError" THEN err
    ELSE IF err.kind = "wrap" THEN AsExitError(err.cause)
    ELSE NilErr

----------------------------------------------------------------------------
(* Run, src/runfx.go:40-86 *)

\* PhaseTag with the tag of Start pasted into the Stop branch
PhaseTagPasted(op) ==
    CASE op = "SetDefaults" -> "set defaults"
      [] op = "Validate"    -> "validate"
      [] op = "Build"       -> "fx.New"
      [] op = "Start"       -> "fx.Start"
      [] op = "Stop"        -> "fx.Start"

\* the message prefix fmt.Errorf gives the error of each phase
PhaseTag(op) ==
    CASE op = "SetDefaults" -> "set defaults"
      [] op = "Validate"    -> "validate"
      [] op = "Build"       -> "fx.New"
      [] op = "Start"       -> "fx.Start"
      [] op = "Stop"        -> "fx.Stop"

\* CtxParent as context.Background() instead of ctx
CtxParentBackground == "active"

\* the parent the two bounded contexts are derived from
CtxParent == rootCtx

\* Resolve that forgets to copy the signal
ResolveDropSignal(s) ==
    IF s.ExitCode # 0 THEN ExitError(s.ExitCode, "nil") ELSE NilErr

\* Resolve without the test of line 78
ResolveAlwaysExit(s) == ExitError(s.ExitCode, s.Signal)

\* lines 78-85: the result of Run once Stop has succeeded
Resolve(s) ==
    IF s.ExitCode # 0 THEN ExitError(s.ExitCode, s.Signal) ELSE NilErr

\* StopResult that looks at the exit code before the error of Stop
StopResultCodeFirst(err, s) ==
    IF s.ExitCode # 0 THEN ExitError(s.ExitCode, s.Signal)
    ELSE IF err.kind # "nil" THEN Wrap(PhaseTag("Stop"), err)
    ELSE NilErr

\* lines 73-85: the result of Run once Stop has returned err
StopResult(err, s) ==
    IF err.kind # "nil" THEN Wrap(PhaseTag("Stop"), err) ELSE Resolve(s)

\* RunDeferred without the defer of line 71
RunDeferredStartOnly ==
    /\ startCtx' = IF startCtx = "none" THEN "none" ELSE CancelCtx(startCtx)
    /\ stopCtx' = stopCtx
    /\ released' = released \cup (IF startCtx # "none" THEN {"start"} ELSE {})

\* the deferred startCancel / stopCancel run when Run returns (lines 61, 71)
RunDeferred ==
    /\ startCtx' = IF startCtx = "none" THEN "none" ELSE CancelCtx(startCtx)
    /\ stopCtx' = IF stopCtx = "none" THEN "none" ELSE CancelCtx(stopCtx)
    /\ released' = released \cup (IF startCtx # "none" THEN {"start"} ELSE {})
                            \cup (IF stopCtx # "none" THEN {"stop"} ELSE {})

\* Return that ends the process itself when there is an error (a log.Fatal
\* inside Run)
ReturnFatal(e) ==
    /\ ret' = e
    /\ pc' = IF e.kind # "nil" THEN "os_exit" ELSE "returned"

\* return e from Run
Return(e) ==
    /\ ret' = e
    /\ pc' = "returned"

Invoke(op) == calls' = Append(calls, op)

Returned(op, e) == rets' = Append(rets, [op |-> op, err |-> e])

\* SetDefaults whose error is dropped instead of returned
SetDefaultsIgnoreErr ==
    /\ pc = "defaults"
    /\ IF hasDef
       THEN \E e \in AppErrors \cup {NilErr} :
              /\ Invoke("SetDefaults")
              /\ Returned("SetDefaults", e)
       ELSE UNCHANGED <<calls, rets>>
    /\ pc' = "validate"
    /\ UNCHANGED <<entry, hasDef, hasVal, rootCtx, handle, startCtx, stopCtx,
                   released, shutdown, sig, ret, rootAtStart, rootAtStop,
                   proc, exitArg, exitStatus, log>>

\* lines 41-46
SetDefaults ==
    /\ pc = "defaults"
    /\ IF hasDef
       THEN \E e \in AppErrors \cup {NilErr} :
              /\ Invoke("SetDefaults")
              /\ Returned("SetDefaults", e)
              /\ IF e.kind # "nil"
                 THEN Return(Wrap(PhaseTag("SetDefaults"), e))
                 ELSE pc' = "validate" /\ UNCHANGED ret
       ELSE pc' = "validate" /\ UNCHANGED <<ret, calls, rets>>
    /\ UNCHANGED <<entry, hasDef, hasVal, rootCtx, handle, startCtx, stopCtx,
                   released, shutdown, sig, rootAtStart, rootAtStop, proc,
                   exitArg, exitStatus, log>>

\* Validate that fails when fxOpts is not a Validator
ValidateRequired ==
    /\ pc = "validate"
    /\ IF hasVal
       THEN \E e \in AppErrors \cup {NilErr} :
              /\ Invoke("Validate")
              /\ Returned("Validate", e)
              /\ IF e.kind # "nil"
                 THEN Return(Wrap(PhaseTag("Validate"), e))
                 ELSE pc' = "build" /\ UNCHANGED ret
       ELSE /\ Return(Wrap(PhaseTag("Validate"), PlainErr("not a Validator")))
            /\ UNCHANGED <<calls, rets>>
    /\ UNCHANGED <<entry, hasDef, hasVal, rootCtx, handle, startCtx, stopCtx,
                   released, shutdown, sig, rootAtStart, rootAtStop, proc,
                   exitArg, exitStatus, log>>

\* lines 48-53
Validate ==
    /\ pc = "validate"
    /\ IF hasVal
       THEN \E e \in AppErrors \cup {NilErr} :
              /\ Invoke("Validate")
              /\ Returned("Validate", e)
              /\ IF e.kind # "nil"
                 THEN Return(Wrap(PhaseTag("Validate"), e))
                 ELSE pc' = "build" /\ UNCHANGED ret
       ELSE pc' = "build" /\ UNCHANGED <<ret, calls, rets>>
    /\ UNCHANGED <<entry, hasDef, hasVal, rootCtx, handle, startCtx, stopCtx,
                   released, shutdown, sig, rootAtStart, rootAtStop, proc,
                   exitArg, exitStatus, log>>

\* lines 55-58: fx.New(fxOpts.Fx()) and fxApp.Err()
Build ==
    /\ pc = "build"
    /\ Invoke("Build")
    /\ \E e \in AppErrors \cup {NilErr} :
         /\ Returned("Build", e)
         /\ IF e.kind # "nil"
            THEN Return(Wrap(PhaseTag("Build"), e)) /\ UNCHANGED handle
            ELSE /\ pc' = "start"
                 /\ \E st \in Timeouts, sp \in Timeouts :
                      handle' = [built |-> TRUE, StartTimeout |-> st,
                                 StopTimeout |-> sp]
                 /\ UNCHANGED ret
    /\ UNCHANGED <<entry, hasDef, hasVal, rootCtx, startCtx, stopCtx,
                   released, shutdown, sig, rootAtStart, rootAtStop, proc,
                   exitArg, exitStatus, log>>

\* lines 60-63: derive startCtx, register startCancel, call fxApp.Start
StartBegin ==
    /\ pc = "start"
    /\ startCtx' = WithTimeout(CtxParent, handle.StartTimeout)
    /\ rootAtStart' = rootCtx
    /\ Invoke("Start")
    /\ pc' = "in_start"
    /\ UNCHANGED <<entry, hasDef, hasVal, rootCtx, handle, stopCtx, released,
                   shutdown, sig, ret, rets, rootAtStop, proc, exitArg,
                   exitStatus, log>>

\* StartReturn that goes on to shut down after a failed Start
StartReturnThenStop ==
    /\ pc = "in_start"
    /\ \E e \in FxCallOutcomes(startCtx) :
         /\ Returned("Start", e)
         /\ IF e.kind # "nil"
            THEN /\ ret' = Wrap(PhaseTag("Start"), e)
                 /\ pc' = "stop"
            ELSE /\ pc' = "wait"
                 /\ UNCHANGED ret
    /\ UNCHANGED <<entry, hasDef, hasVal, rootCtx, handle, shutdown, sig,
                   calls, rootAtStart, rootAtStop, proc, exitArg, exitStatus,
                   log, startCtx, stopCtx, released>>

\* StartReturn that calls startCancel as soon as Start has returned
StartReturnReleases ==
    /\ pc = "in_start"
    /\ \E e \in FxCallOutcomes(startCtx) :
         /\ Returned("Start", e)
         /\ IF e.kind # "nil"
            THEN Return(Wrap(PhaseTag("Start"), e))
            ELSE pc' = "wait" /\ UNCHANGED ret
    /\ startCtx' = CancelCtx(startCtx)
    /\ released' = released \cup {"start"}
    /\ UNCHANGED <<entry, hasDef, hasVal, rootCtx, handle, shutdown, sig,
                   calls, rootAtStart, rootAtStop, proc, exitArg, exitStatus,
                   log, stopCtx>>

\* lines 63-66: fxApp.Start returns
StartReturn ==
    /\ pc = "in_start"
    /\ \E e \in FxCallOutcomes(startCtx) :
         /\ Returned("Start", e)
         /\ IF e.kind # "nil"
            THEN /\ Return(Wrap(PhaseTag("Start"), e))
                 /\ RunDeferred
            ELSE /\ pc' = "wait"
                 /\ UNCHANGED <<ret, startCtx, stopCtx, released>>
    /\ UNCHANGED <<entry, hasDef, hasVal, rootCtx, handle, shutdown, sig,
                   calls, rootAtStart, rootAtStop, proc, exitArg, exitStatus,
                   log>>

\* line 68: fxApp.Wait() is called and Run blocks on the channel
WaitBegin ==
    /\ pc = "wait"
    /\ Invoke("Wait")
    /\ pc' = "in_wait"
    /\ UNCHANGED <<entry, hasDef, hasVal, rootCtx, handle, startCtx, stopCtx,
                   released, shutdown, sig, ret, rets, rootAtStart,
                   rootAtStop, proc, exitArg, exitStatus, log>>

\* WaitReturn that returns the exit code at once, without stopping
WaitReturnSkipStop ==
    /\ pc = "in_wait"
    /\ shutdown.Signal # "none"
    /\ sig' = shutdown
    /\ Returned("Wait", NilErr)
    /\ IF shutdown.ExitCode # 0
       THEN /\ Return(ExitError(shutdown.ExitCode, shutdown.Signal))
            /\ RunDeferred
       ELSE /\ pc' = "stop"
            /\ UNCHANGED <<ret, startCtx, stopCtx, released>>
    /\ UNCHANGED <<entry, hasDef, hasVal, rootCtx, handle, shutdown, calls,
                   rootAtStart, rootAtStop, proc, exitArg, exitStatus, log>>

\* WaitReturn as a select that also gives up when ctx is done
WaitReturnOrCtxDone ==
    /\ pc = "in_wait"
    /\ \/ /\ shutdown.Signal # "none"
          /\ sig' = shutdown
          /\ Returned("Wait", NilErr)
          /\ pc' = "stop"
          /\ UNCHANGED <<ret, startCtx, stopCtx, released>>
       \/ /\ Done(rootCtx)
          /\ Returned("Wait", CtxErr(rootCtx))
          /\ Return(CtxErr(rootCtx))
          /\ RunDeferred
          /\ UNCHANGED sig
    /\ UNCHANGED <<entry, hasDef, hasVal, rootCtx, handle, shutdown, calls,
                   rootAtStart, rootAtStop, proc, exitArg, exitStatus, log>>

\* WaitReturn that blocks on ctx.Done() instead of the channel of Wait
WaitReturnOnCtxDone ==
    /\ pc = "in_wait"
    /\ Done(rootCtx)
    /\ sig' = [ExitCode |-> 0, Signal |-> "nil"]
    /\ Returned("Wait", NilErr)
    /\ pc' = "stop"
    /\ UNCHANGED <<entry, hasDef, hasVal, rootCtx, handle, startCtx, stopCtx,
                   released, shutdown, ret, calls, rootAtStart, rootAtStop,
                   proc, exitArg, exitStatus, log>>

\* line 68: the receive completes once a shutdown signal has been broadcast
WaitReturn ==
    /\ pc = "in_wait"
    /\ shutdown.Signal # "none"
    /\ sig' = shutdown
    /\ Returned("Wait", NilErr)
    /\ pc' = "stop"
    /\ UNCHANGED <<entry, hasDef, hasVal, rootCtx, handle, startCtx, stopCtx,
                   released, shutdown, ret, calls, rootAtStart, rootAtStop,
                   proc, exitArg, exitStatus, log>>

\* StopBegin that derives stopCtx from context.Background()
StopBeginBackground ==
    /\ pc = "stop"
    /\ stopCtx' = WithTimeout("active", handle.StopTimeout)
    /\ rootAtStop' = rootCtx
    /\ Invoke("Stop")
    /\ pc' = "in_stop"
    /\ UNCHANGED <<entry, hasDef, hasVal, rootCtx, handle, startCtx, released,
                   shutdown, sig, ret, rets, rootAtStart, proc, exitArg,
                   exitStatus, log>>

\* lines 70-73: derive stopCtx, register stopCancel, call fxApp.Stop
StopBegin ==
    /\ pc = "stop"
    /\ stopCtx' = WithTimeout(CtxParent, handle.StopTimeout)
    /\ rootAtStop' = rootCtx
    /\ Invoke("Stop")
    /\ pc' = "in_stop"
    /\ UNCHANGED <<entry, hasDef, hasVal, rootCtx, handle, startCtx, released,
                   shutdown, sig, ret, rets, rootAtStart, proc, exitArg,
                   exitStatus, log>>

\* lines 73-85: fxApp.Stop returns and Run returns
StopReturn ==
    /\ pc = "in_stop"
    /\ \E e \in FxCallOutcomes(stopCtx) :
         /\ Returned("Stop", e)
         /\ Return(StopResult(e, sig))
    /\ RunDeferred
    /\ UNCHANGED <<entry, hasDef, hasVal, rootCtx, handle, shutdown, sig,
                   calls, rootAtStart, rootAtStop, proc, exitArg, exitStatus,
                   log>>

----------------------------------------------------------------------------
(* The environment of Run while it executes *)

Running == pc \notin {"returned", "caller", "os_exit", "exited"}

\* the caller cancels ctx, or its deadline passes
RootDone ==
    /\ Running
    /\ rootCtx = "active"
    /\ \E st \in {"canceled", "deadline"} :
         /\ rootCtx' = st
         /\ startCtx' = Propagate(startCtx, st)
         /\ stopCtx' = Propagate(stopCtx, st)
    /\ UNCHANGED <<entry, hasDef, hasVal, pc, handle, released, shutdown, sig,
                   ret, calls, rets, rootAtStart, rootAtStop, proc, exitArg,
                   exitStatus, log>>

\* the timer of startCtx fires (StartTimeout has elapsed)
StartTimerFires ==
    /\ Running
    /\ startCtx = "active"
    /\ startCtx' = "deadline"
    /\ UNCHANGED <<entry, hasDef, hasVal, pc, rootCtx, handle, stopCtx,
                   released, shutdown, sig, ret, calls, rets, rootAtStart,
                   rootAtStop, proc, exitArg, exitStatus, log>>

\* the timer of stopCtx fires (StopTimeout has elapsed)
StopTimerFires ==
    /\ Running
    /\ stopCtx = "active"
    /\ stopCtx' = "deadline"
    /\ UNCHANGED <<entry, hasDef, hasVal, pc, rootCtx, handle, startCtx,
                   released, shutdown, sig, ret, calls, rets, rootAtStart,
                   rootAtStop, proc, exitArg, exitStatus, log>>

\* the application asks to terminate (an OS signal or fx.Shutdowner): the
\* signal reaches the channel of fxApp.Wait(), also when Wait is called later
Shutdown ==
    /\ Running
    /\ pc \in {"in_start", "wait", "in_wait"}
    /\ shutdown.Signal = "none"
    /\ \E s \in ShutdownSignals : shutdown' = s
    /\ UNCHANGED <<entry, hasDef, hasVal, pc, rootCtx, handle, startCtx,
                   stopCtx, released, sig, ret, calls, rets, rootAtStart,
                   rootAtStop, proc, exitArg, exitStatus, log>>

----------------------------------------------------------------------------
(* RunAndExit, src/runfx.go:20-34 *)

\* ExitCodeFor that exits with 1 on every error
ExitCodeForAlwaysOne(err) == IF err.kind = "nil" THEN 0 ELSE 1

\* the exit code RunAndExit chooses for the error Run returned
ExitCodeFor(err) ==
    IF err.kind = "nil" THEN 0
    ELSE IF AsExitError(err).kind = "ExitError" THEN AsExitError(err).ExitCode
    ELSE 1

\* what RunAndExit logs for the error Run returned: log.Printf on line 26,
\* or the print of log.Fatal on line 30
LogFor(err) ==
    IF err.kind = "nil" THEN <<>>
    ELSE IF AsExitError(err).kind = "ExitError"
         THEN <<[line |-> "exit", code |-> AsExitError(err).ExitCode,
                 signal |-> AsExitError(err).Signal]>>
    ELSE <<[line |-> "fatal", err |-> err]>>

\* RunAndExitReport without the os.Exit(0) of line 33: falls off the end
RunAndExitReportFallsOff ==
    /\ entry = "RunAndExit"
    /\ pc = "returned"
    /\ log' = log \o LogFor(ret)
    /\ exitArg' = ExitCodeFor(ret)
    /\ pc' = IF ret.kind = "nil" THEN "caller" ELSE "os_exit"
    /\ UNCHANGED <<entry, hasDef, hasVal, rootCtx, handle, startCtx, stopCtx,
                   released, shutdown, sig, ret, calls, rets, rootAtStart,
                   rootAtStop, proc, exitStatus>>

\* lines 21-26 and 30: inspect the error and log
RunAndExitReport ==
    /\ entry = "RunAndExit"
    /\ pc = "returned"
    /\ log' = log \o LogFor(ret)
    /\ exitArg' = ExitCodeFor(ret)
    /\ pc' = "os_exit"
    /\ UNCHANGED <<entry, hasDef, hasVal, rootCtx, handle, startCtx, stopCtx,
                   released, shutdown, sig, ret, calls, rets, rootAtStart,
                   rootAtStop, proc, exitStatus>>

\* lines 27, 30 and 33: os.Exit (log.Fatal exits with 1)
OsExit ==
    /\ pc = "os_exit"
    /\ proc' = "exited"
    /\ exitStatus' = exitArg
    /\ pc' = "exited"
    /\ UNCHANGED <<entry, hasDef, hasVal, rootCtx, handle, startCtx, stopCtx,
                   released, shutdown, sig, ret, calls, rets, rootAtStart,
                   rootAtStop, exitArg, log>>

\* Run called directly (line 40): the error is handed back and the caller
\* goes on
CallerContinues ==
    /\ entry = "Run"
    /\ pc = "returned"
    /\ pc' = "caller"
    /\ UNCHANGED <<entry, hasDef, hasVal, rootCtx, handle, startCtx, stopCtx,
                   released, shutdown, sig, ret, calls, rets, rootAtStart,
                   rootAtStop, proc, exitArg, exitStatus, log>>

----------------------------------------------------------------------------
Next ==
    \/ SetDefaults
    \/ Validate
    \/ Build
    \/ StartBegin
    \/ StartReturn
    \/ WaitBegin
    \/ WaitReturn
    \/ StopBegin
    \/ StopReturn
    \/ RootDone
    \/ StartTimerFires
    \/ StopTimerFires
    \/ Shutdown
    \/ RunAndExitReport
    \/ OsExit
    \/ CallerContinues

Spec == Init /\ [][Next]_vars

\* the steps of the one flow of control through RunAndExit and Run
ProgramStep ==
    \/ SetDefaults
    \/ Validate
    \/ Build
    \/ StartBegin
    \/ StartReturn
    \/ WaitBegin
    \/ WaitReturn
    \/ StopBegin
    \/ StopReturn
    \/ RunAndExitReport
    \/ OsExit
    \/ CallerContinues

\* the flow of control keeps running (every call returns), and the
\* application produces a termination signal once it can
FairSpec == Spec /\ WF_vars(ProgramStep) /\ WF_vars(Shutdown)

----------------------------------------------------------------------------
(* History of one execution, read off calls and rets *)

RunReturned == pc \in {"returned", "caller", "os_exit", "exited"}

Count(op) == Cardinality({i \in DOMAIN calls : calls[i] = op})

HasReturned(op) == \E i \in DOMAIN rets : rets[i].op = op

Succeeded(op) == \E i \in DOMAIN rets : rets[i].op = op /\ rets[i].err.kind = "nil"

Failed(op) == \E i \in DOMAIN rets : rets[i].op = op /\ rets[i].err.kind # "nil"

ErrOf(op) == rets[CHOOSE i \in DOMAIN rets : rets[i].op = op].err

Phases == <<"SetDefaults", "Validate", "Build", "Start", "Wait", "Stop">>

\* the phases the application has, in order
RECURSIVE Present(_)
Present(ps) ==
    IF ps = <<>> THEN <<>>
    ELSE IF \/ Head(ps) = "SetDefaults" /\ ~hasDef
            \/ Head(ps) = "Validate" /\ ~hasVal
         THEN Present(Tail(ps))
         ELSE <<Head(ps)>> \o Present(Tail(ps))

IsPrefix(a, b) == Len(a) <= Len(b) /\ a = SubSeq(b, 1, Len(a))

----------------------------------------------------------------------------
(* Claims *)

\* C1: once Start has succeeded, Stop is invoked exactly once by the time Run
\* returns, and only after Wait has delivered a termination signal,
\* whatever the signal's exit code and signal are.
C1_StopOnceAfterWait ==
    /\ Count("Stop") <= 1
    /\ Count("Stop") = 1 =>
         /\ Succeeded("Start")
         /\ Succeeded("Wait")
         /\ sig \in ShutdownSignals
    /\ (RunReturned /\ Succeeded("Start")) => Count("Stop") = 1

C1_Witness ==
    /\ RunReturned
    /\ Succeeded("Start")
    /\ Count("Stop") = 1
    /\ sig.ExitCode = 7
    /\ sig.Signal = "nil"

\* C2: if Build succeeds and Start fails (also when startCtx's deadline is
\* exceeded), Run returns the error of Start wrapped with the fx.Start tag
\* and neither Wait nor Stop is invoked.
C2_StartFailureSkipsWaitAndStop ==
    (Succeeded("Build") /\ Failed("Start")) =>
        /\ RunReturned
        /\ ret = Wrap("fx.Start", ErrOf("Start"))
        /\ Count("Wait") = 0
        /\ Count("Stop") = 0

C2_Witness ==
    /\ Succeeded("Build")
    /\ Failed("Start")
    /\ ErrOf("Start") = DeadlineExceeded
    /\ handle.StartTimeout = 1
    /\ rootCtx = "active"
    /\ RunReturned

\* C3: if Stop fails, Run returns the Stop phase error whatever the
\* termination signal was; the result is never the ExitError of the signal.
C3_StopFailureOverridesExitCode ==
    Failed("Stop") =>
        /\ RunReturned
        /\ ret.kind = "wrap"
        /\ ret = Wrap("fx.Stop", ErrOf("Stop"))
        /\ ret # ExitError(sig.ExitCode, sig.Signal)

C3_Witness ==
    /\ Failed("Stop")
    /\ sig.ExitCode = 7
    /\ RunReturned

\* C4 as stated: if Stop succeeds and the termination signal has a nonzero
\* exit code or a signal present, Run returns the ExitError carrying the
\* signal's exit code and signal.
C4_Original ==
    (RunReturned /\ Succeeded("Stop")
       /\ (sig.ExitCode # 0 \/ sig.Signal # "nil")) =>
        ret = ExitError(sig.ExitCode, sig.Signal)

\* C4 (amended): if Stop succeeds and the termination signal has a nonzero
\* exit code, Run returns the ExitError carrying exactly the signal's exit
\* code and signal, never nil.
C4_NonzeroCodeGivesExitError ==
    (RunReturned /\ Succeeded("Stop") /\ sig.ExitCode # 0) =>
        /\ ret = ExitError(sig.ExitCode, sig.Signal)
        /\ ret.kind # "nil"

C4_Witness ==
    /\ RunReturned
    /\ Succeeded("Stop")
    /\ sig = [ExitCode |-> 3, Signal |-> "SIGTERM"]
    /\ ret = ExitError(3, "SIGTERM")

\* C5 as stated: Run returns nil if and only if every invoked phase
\* succeeded, Stop succeeded and the termination signal is exit code 0 with
\* no signal.
C5_Original ==
    RunReturned =>
        (ret.kind = "nil" <=>
            /\ \A i \in DOMAIN rets : rets[i].err.kind = "nil"
            /\ Succeeded("Stop")
            /\ sig.ExitCode = 0
            /\ sig.Signal = "nil")

\* C5 (amended): Run returns nil if and only if every invoked phase
\* succeeded, Stop succeeded and the termination signal's exit code is 0,
\* with or without a signal.
C5_SuccessIffCleanStopAndCodeZero ==
    RunReturned =>
        (ret.kind = "nil" <=>
            /\ \A i \in DOMAIN rets : rets[i].err.kind = "nil"
            /\ Succeeded("Stop")
            /\ sig.ExitCode = 0)

C5_Witness ==
    /\ RunReturned
    /\ ret.kind = "nil"
    /\ Succeeded("Stop")
    /\ sig = [ExitCode |-> 0, Signal |-> "nil"]

\* C6: if the application has SetDefaults and it fails, Run returns the
\* error wrapped with the set defaults tag and no other operation is ever
\* invoked.
C6_SetDefaultsFailureStopsEverything ==
    Failed("SetDefaults") =>
        /\ RunReturned
        /\ ret = Wrap("set defaults", ErrOf("SetDefaults"))
        /\ calls = <<"SetDefaults">>

C6_Witness ==
    /\ hasDef
    /\ Failed("SetDefaults")
    /\ pc = "exited"

\* C7: the operations invoked are a prefix of SetDefaults, Validate, Build,
\* Start, Wait, Stop without the optional ones the application lacks (whose
\* absence is no error); one operation is in progress at a time, and each is
\* invoked only after the one before it returned success.
C7_PhasesInOrder ==
    /\ IsPrefix(calls, Present(Phases))
    /\ Len(rets) <= Len(calls)
    /\ Len(calls) <= Len(rets) + 1
    /\ \A i \in DOMAIN rets : rets[i].op = calls[i]
    /\ \A i \in DOMAIN calls : i > 1 => rets[i - 1].err.kind = "nil"
    /\ (RunReturned /\ ~hasDef /\ ~hasVal) =>
         (calls # <<>> /\ calls[1] = "Build")
    /\ (RunReturned /\ ~hasVal) => ~(ret.kind = "wrap" /\ ret.tag = "validate")
    /\ (RunReturned /\ ~hasDef) => ~(ret.kind = "wrap" /\ ret.tag = "set defaults")

C7_Witness ==
    /\ ~hasDef
    /\ ~hasVal
    /\ calls = <<"Build", "Start", "Wait", "Stop">>
    /\ RunReturned

\* C8: when a phase fails, Run has returned the phase's error wrapped with
\* the tag of that phase and of no other; the failed operation was invoked
\* once and is the last one invoked.
C8_PhaseErrorReturnedAtOnce ==
    \A i \in DOMAIN rets :
        rets[i].err.kind # "nil" =>
            /\ RunReturned
            /\ i = Len(rets)
            /\ i = Len(calls)
            /\ Count(rets[i].op) = 1
            /\ ret = Wrap(PhaseTag(rets[i].op), rets[i].err)
            /\ \A j \in DOMAIN Phases :
                 (Phases[j] # "Wait" /\ Phases[j] # rets[i].op) =>
                     ret.tag # PhaseTag(Phases[j])

C8_Witness ==
    /\ Failed("Stop")
    /\ ErrOf("Stop") = PlainErr("boom")
    /\ ret = Wrap("fx.Stop", PlainErr("boom"))
    /\ RunReturned

\* C9: if ctx is already canceled or past its deadline when the Start phase
\* begins, Start fails with that cause, Run returns it wrapped with the
\* fx.Start tag, and Wait is never called.
C9_CanceledRootFailsStart ==
    Done(rootAtStart) =>
        /\ Count("Wait") = 0
        /\ ~Succeeded("Start")
        /\ HasReturned("Start") =>
             /\ ErrOf("Start") = CtxErr(rootAtStart)
             /\ RunReturned
             /\ ret = Wrap("fx.Start", CtxErr(rootAtStart))

C9_Witness ==
    /\ rootAtStart = "canceled"
    /\ HasReturned("Start")
    /\ ret = Wrap("fx.Start", Canceled)
    /\ RunReturned

\* C10: when Run returned an ExitError, RunAndExit logs its code and signal
\* before the process exits, and the process exits with exactly that code;
\* when Run returned nil the process exits with status 0.
C10_ExitWithSignalCode ==
    (entry = "RunAndExit" /\ pc \in {"os_exit", "exited"}) =>
        /\ ret.kind = "ExitError" =>
             /\ log = <<[line |-> "exit", code |-> ret.ExitCode,
                         signal |-> ret.Signal]>>
             /\ proc = "exited" => exitStatus = ret.ExitCode
        /\ ret.kind = "nil" =>
             /\ proc = "exited" => exitStatus = 0

C10_Witness ==
    /\ entry = "RunAndExit"
    /\ proc = "exited"
    /\ ret = ExitError(3, "nil")
    /\ exitStatus = 3
    /\ Succeeded("Stop")

\* C11: whenever Run returned a phase error, whatever its cause (also a cause
\* that is itself an ExitError), RunAndExit ends the process with a nonzero
\* status; status 0 is used only when Run returned nil.
C11_PhaseErrorExitsNonzero ==
    (entry = "RunAndExit" /\ proc = "exited") =>
        /\ ret.kind = "wrap" => exitStatus # 0
        /\ exitStatus = 0 => ret.kind = "nil"

\* the exit statuses RunAndExit uses for the ExitError values Run can return
\* (Resolve gives one for every nonzero exit code)
ExitSignalStatuses ==
    {ExitCodeFor(Resolve(s)) : s \in {t \in ShutdownSignals : t.ExitCode # 0}}

\* C12: the exit status RunAndExit uses for a phase error is none of the
\* statuses it uses for an ExitError returned by Run.
C12_PhaseErrorStatusReserved ==
    (entry = "RunAndExit" /\ proc = "exited" /\ ret.kind = "wrap") =>
        exitStatus \notin ExitSignalStatuses

\* C13: RunAndExit never returns: once Run has returned to it, the flow of
\* control is on its way to os.Exit or the process has exited, and control
\* never reaches the caller again.
C13_RunAndExitNeverReturns ==
    entry = "RunAndExit" =>
        /\ pc # "caller"
        /\ RunReturned =>
             \/ pc = "returned" /\ proc = "alive" /\ ENABLED RunAndExitReport
             \/ pc = "os_exit" /\ proc = "alive" /\ ENABLED OsExit
             \/ pc = "exited" /\ proc = "exited"

C13_Witness ==
    /\ entry = "RunAndExit"
    /\ pc = "exited"
    /\ proc = "exited"
    /\ ret.kind = "nil"

\* C14: Run never ends the process: while Run executes and when it has
\* handed its result to the caller the process is alive, for every outcome;
\* the process exits only in RunAndExit, after Run has returned.
C14_RunKeepsProcessAlive ==
    /\ Running => proc = "alive"
    /\ pc \in {"returned", "caller"} => proc = "alive"
    /\ entry = "Run" => proc = "alive" /\ pc \notin {"os_exit", "exited"}
    /\ proc = "exited" => entry = "RunAndExit" /\ pc = "exited"

C14_Witness ==
    /\ entry = "Run"
    /\ pc = "caller"
    /\ proc = "alive"
    /\ ret.kind = "wrap"
    /\ ret.tag = "fx.Stop"

\* C15 as stated: each bounded context is released as soon as its own phase
\* completes: while Run is in the Wait phase startCtx has been released and
\* holds no live timer.
C15_Original ==
    pc \in {"wait", "in_wait"} =>
        /\ "start" \in released
        /\ startCtx # "active"

\* C15 (amended): each bounded context is released when Run returns, whether
\* its phase succeeded or failed, and not before: while Run is in the Wait
\* phase startCtx has not been released and still holds its timer, unless
\* the timer has fired or ctx is done.
C15_ReleasedOnlyAtReturn ==
    /\ Running => released = {}
    /\ pc \in {"wait", "in_wait"} =>
         \/ startCtx = "active"
         \/ startCtx = "deadline"
         \/ Done(rootCtx) /\ startCtx = rootCtx
    /\ (RunReturned /\ Count("Start") = 1) =>
         "start" \in released /\ startCtx # "active"
    /\ (RunReturned /\ Count("Stop") = 1) =>
         "stop" \in released /\ stopCtx # "active"

C15_Witness ==
    /\ pc = "in_wait"
    /\ startCtx = "active"
    /\ released = {}
    /\ Succeeded("Start")

\* C16: for every exit code of the termination signal and every phase error,
\* the status RunAndExit ends the process with is in 0..255.
C16_ExitStatusInByteRange ==
    (entry = "RunAndExit" /\ proc = "exited") => exitStatus \in 0..255

\* C17: when Run has returned, every bounded context derived in the
\* execution has been released (startCtx, and stopCtx if it was created);
\* when Run returned before the Start phase no bounded context was created.
C17_ContextsReleasedAtReturn ==
    RunReturned =>
        /\ startCtx # "none" => "start" \in released /\ startCtx # "active"
        /\ stopCtx # "none" => "stop" \in released /\ stopCtx # "active"
        /\ startCtx = "none" <=> Count("Start") = 0
        /\ stopCtx = "none" <=> Count("Stop") = 0
        /\ Count("Start") = 0 => released = {}
        /\ "stop" \in released => stopCtx # "none"

C17_Witness ==
    /\ RunReturned
    /\ Failed("Stop")
    /\ ErrOf("Stop") = PlainErr("boom")
    /\ released = {"start", "stop"}
    /\ stopCtx = "canceled"

\* C18: Run leaves the Wait phase only by receiving the termination signal,
\* and then goes on to Stop; ctx being canceled or expired and the start
\* timeout expiring do not end the wait.
C18_WaitEndsOnlyOnSignal ==
    [][pc = "in_wait" =>
          \/ pc' = "in_wait" /\ ret' = ret /\ calls' = calls
          \/ /\ shutdown.Signal # "none"
             /\ pc' = "stop"
             /\ sig' = shutdown
             /\ calls' = calls]_vars

C18_Witness ==
    /\ pc = "in_wait"
    /\ rootCtx = "canceled"
    /\ startCtx = "canceled"
    /\ shutdown.Signal = "none"
    /\ calls = <<"Build", "Start", "Wait">>

\* C19: if ctx is canceled or expires after Start succeeded and before the
\* Stop phase begins, Stop is still invoked exactly once, with a stopCtx
\* that is already done; Stop fails with that cause and Run returns the Stop
\* phase error whatever the exit code of the termination signal.
C19_CanceledRootFailsStop ==
    /\ (RunReturned /\ Succeeded("Start")) => rootAtStop # "none"
    /\ Done(rootAtStop) =>
         /\ Succeeded("Start")
         /\ Count("Stop") = 1
         /\ stopCtx = rootAtStop
         /\ ~Succeeded("Stop")
         /\ HasReturned("Stop") =>
              /\ ErrOf("Stop") = CtxErr(rootAtStop)
              /\ RunReturned
              /\ ret = Wrap("fx.Stop", CtxErr(rootAtStop))

C19_Witness ==
    /\ rootAtStart = "active"
    /\ rootAtStop = "canceled"
    /\ sig.ExitCode = 0
    /\ Failed("Stop")
    /\ ret = Wrap("fx.Stop", Canceled)
    /\ RunReturned

\* C20: under fairness (every call returns, and a termination signal comes
\* once Start has succeeded) Run eventually returns, and once it has
\* returned its result and its calls never change again.
C20_RunTerminates ==
    /\ <>RunReturned
    /\ [][RunReturned =>
            /\ RunReturned'
            /\ ret' = ret
            /\ calls' = calls
            /\ rets' = rets]_vars

C20_Witness ==
    /\ RunReturned
    /\ Succeeded("Stop")
    /\ ret.kind = "ExitError"
    /\ pc = "caller"

====
